---- MODULE Spec2Model ----
(***************************************************************************)
(* Model of recursive.c: the mutual recursion RecursiveMadness_foo /        *)
(* RecursiveMadness_bar, the loop bound RecursiveMadness_get_limit, the     *)
(* entry RecursiveMadness_start and main.  The C call stack is explicit:    *)
(* `stack` is the sequence of activation records, the last one on top.      *)
(* `trace` is what has been written to standard output, one record per      *)
(* printf.  `calls` logs every invocation of foo and bar with the length    *)
(* of the trace at the moment of the call.                                  *)
(***************************************************************************)
EXTENDS Integers, Sequences, FiniteSets, TLC

VARIABLES x0, heap, stack, trace, calls, lastLimit, status

vars == <<x0, heap, stack, trace, calls, lastLimit, status>>

\* ---- bounds of the model ------------------------------------------------
\* start(x) is explored for x in -NegX..MaxX, a lone bar(c) for c in -NegArg..MaxArg
NegX == 3
MaxX == 8
NegArg == 4
MaxArg == 8
\* frames the call stack may hold (the native stack is finite)
MaxDepth == 16

\* ---- C arithmetic -------------------------------------------------------
\* C's % truncates toward zero: the remainder has the sign of the dividend
CRem(a, b) == IF a >= 0 THEN a % b ELSE 0 - ((0 - a) % b)

\* ---- output lines -------------------------------------------------------
\* printf("Starting madness with %d\n", x)
BannerLine(x) == [kind |-> "banner", x |-> x]

\* printf("Reached base in foo\n")
BaseLine == [kind |-> "base"]

\* printf("bar loop i=%d, count=%d\n", i, count)
BarLoopLine(i, count) == [kind |-> "bar", i |-> i, count |-> count]

\* ---- RecursiveMadness_get_limit ----------------------------------------
RecursiveMadness_get_limit_noguard(x) == CRem(x, 4) + 2

RecursiveMadness_get_limit(x) == IF x < 0 THEN 0 ELSE CRem(x, 4) + 2

\* ---- RecursiveMadness_new: malloc, this->depth = 0 ----------------------
RecursiveMadness_new == [depth |-> 0]

\* ---- activation records -------------------------------------------------
Frame(proc, arg) == [proc |-> proc, arg |-> arg, i |-> 0, pc |-> "entry"]

Top == stack[Len(stack)]

SetTop(f) == [stack EXCEPT ![Len(stack)] = f]

CallRec(proc, arg) == [proc |-> proc, arg |-> arg, at |-> Len(trace)]

\* ---- RecursiveMadness_foo ----------------------------------------------
\* the test `result > 0` of foo
FooRecurses_nonzero(result) == result # 0

FooRecurses(result) == result > 0

\* the inner `int level = result - 1` handed to bar
FooInnerLevel_same(result) == result

FooInnerLevel(result) == result - 1

\* what the else branch of foo prints
FooBaseOutput_silent == << >>

FooBaseOutput == <<BaseLine>>

\* ---- RecursiveMadness_bar ----------------------------------------------
\* the loop condition i <= this->get_limit(count), evaluated before every
\* iteration; count is the parameter (the inner count lives in the body only)
\* and get_limit is RecursiveMadness_get_limit, the only function of that name
BarLoopCond_strict(i, count) == i < RecursiveMadness_get_limit(count)

BarLoopCond(i, count) == i <= RecursiveMadness_get_limit(count)

\* the loop body: `int count = i` shadows the parameter, then the printf
BarBodyLine_param(i, param) == BarLoopLine(i, param)

BarBodyLine(i, param) == LET count == i IN BarLoopLine(i, count)

\* the argument of the call after the loop: foo(this, count - 1)
BarTailArg_up(count) == count + 1

BarTailArg(count) == count - 1

\* ---- initial states -----------------------------------------------------
\* the process about to run main; x0 is the value main hands to start
Init ==
    /\ x0 \in (0 - NegX)..MaxX
    /\ heap = << >>
    /\ stack = <<Frame("main", 0)>>
    /\ trace = << >>
    /\ calls = << >>
    /\ lastLimit = << >>
    /\ status = << >>

\* a lone invocation bar(this, c) on an existing record
InitBar ==
    /\ x0 \in (0 - NegArg)..MaxArg
    /\ heap = <<RecursiveMadness_new>>
    /\ stack = <<Frame("bar", x0)>>
    /\ trace = << >>
    /\ calls = <<[proc |-> "bar", arg |-> x0, at |-> 0]>>
    /\ lastLimit = << >>
    /\ status = << >>

\* ---- actions ------------------------------------------------------------
\* main: insane = RecursiveMadness_new(); RecursiveMadness_start(insane, x0)
Main ==
    /\ stack # << >>
    /\ Top.proc = "main" /\ Top.pc = "entry"
    /\ Len(stack) < MaxDepth
    /\ heap' = <<RecursiveMadness_new>>
    /\ stack' = Append(SetTop([Top EXCEPT !.pc = "ret"]), Frame("start", x0))
    /\ UNCHANGED <<x0, trace, calls, lastLimit, status>>

\* main: return 0, once start has returned
MainReturn ==
    /\ stack # << >>
    /\ Top.proc = "main" /\ Top.pc = "ret"
    /\ stack' = << >>
    /\ status' = <<0>>
    /\ UNCHANGED <<x0, heap, trace, calls, lastLimit>>

\* start: the banner, then the call foo(this, x)
Start ==
    /\ stack # << >>
    /\ Top.proc = "start" /\ Top.pc = "entry"
    /\ Len(stack) < MaxDepth
    /\ trace' = Append(trace, BannerLine(Top.arg))
    /\ calls' = Append(calls, [proc |-> "foo", arg |-> Top.arg, at |-> Len(trace')])
    /\ stack' = Append(SetTop([Top EXCEPT !.pc = "ret"]), Frame("foo", Top.arg))
    /\ UNCHANGED <<x0, heap, lastLimit, status>>

\* foo, taken branch: result = level; result > 0; bar(this, result - 1)
FooCallBar ==
    /\ stack # << >>
    /\ Top.proc = "foo" /\ Top.pc = "entry"
    /\ LET result == Top.arg IN
        /\ FooRecurses(result)
        /\ Len(stack) < MaxDepth
        /\ calls' = Append(calls, CallRec("bar", FooInnerLevel(result)))
        /\ stack' = Append(SetTop([Top EXCEPT !.pc = "ret"]),
                           Frame("bar", FooInnerLevel(result)))
    /\ UNCHANGED <<x0, heap, trace, lastLimit, status>>

\* foo, else branch: the base-case line
FooBase ==
    /\ stack # << >>
    /\ Top.proc = "foo" /\ Top.pc = "entry"
    /\ LET result == Top.arg IN
        /\ ~FooRecurses(result)
        /\ trace' = trace \o FooBaseOutput
        /\ stack' = SetTop([Top EXCEPT !.pc = "ret"])
    /\ UNCHANGED <<x0, heap, calls, lastLimit, status>>

\* bar, one iteration: the condition holds, the body prints, i++
BarLoop ==
    /\ stack # << >>
    /\ Top.proc = "bar" /\ Top.pc = "entry"
    /\ BarLoopCond(Top.i, Top.arg)
    /\ lastLimit' = <<Top.arg, RecursiveMadness_get_limit(Top.arg)>>
    /\ trace' = Append(trace, BarBodyLine(Top.i, Top.arg))
    /\ stack' = SetTop([Top EXCEPT !.i = Top.i + 1])
    /\ UNCHANGED <<x0, heap, calls, status>>

\* bar, loop exit: the condition fails, then foo(this, count - 1)
BarTail ==
    /\ stack # << >>
    /\ Top.proc = "bar" /\ Top.pc = "entry"
    /\ ~BarLoopCond(Top.i, Top.arg)
    /\ Len(stack) < MaxDepth
    /\ lastLimit' = <<Top.arg, RecursiveMadness_get_limit(Top.arg)>>
    /\ calls' = Append(calls, CallRec("foo", BarTailArg(Top.arg)))
    /\ stack' = Append(SetTop([Top EXCEPT !.pc = "ret"]),
                       Frame("foo", BarTailArg(Top.arg)))
    /\ UNCHANGED <<x0, heap, trace, status>>

\* the end of start, foo or bar: the frame is popped, the caller resumes
Return ==
    /\ stack # << >>
    /\ Top.proc # "main" /\ Top.pc = "ret"
    /\ stack' = SubSeq(stack, 1, Len(stack) - 1)
    /\ UNCHANGED <<x0, heap, trace, calls, lastLimit, status>>

Next ==
    \/ Main
    \/ Start
    \/ FooCallBar
    \/ FooBase
    \/ BarLoop
    \/ BarTail
    \/ Return
    \/ MainReturn

NextBar ==
    \/ FooCallBar
    \/ FooBase
    \/ BarLoop
    \/ BarTail
    \/ Return

\* the whole program, start called with x0
Spec == Init /\ [][Next]_vars

\* the program is sequential and always takes its next step
FairSpec == Init /\ [][Next]_vars /\ WF_vars(Next)

\* one invocation of bar with any argument
SpecBar == InitBar /\ [][NextBar]_vars

\* ---- notions the properties are stated in ------------------------------
\* the program has exited (main returned)
Done == status # << >> /\ stack = << >>

IsBarLine(l) == l.kind = "bar"

IsBaseLine(l) == l.kind = "base"

\* the 'bar loop' lines of the trace
BarLines == SelectSeq(trace, IsBarLine)

IsBarCall(c) == c.proc = "bar"

IsFooCall(c) == c.proc = "foo"

\* the arguments bar / foo have been invoked with, in order
BarArgs == [k \in 1..Len(SelectSeq(calls, IsBarCall)) |-> SelectSeq(calls, IsBarCall)[k].arg]

FooArgs == [k \in 1..Len(SelectSeq(calls, IsFooCall)) |-> SelectSeq(calls, IsFooCall)[k].arg]

\* limit as the specification states it (mathematical mod)
SpecLimit(x) == IF x < 0 THEN 0 ELSE (x % 4) + 2

\* sum over k = 0 .. n-1 of limit(k) + 1
RECURSIVE SumAllBelow(_)
SumAllBelow(n) == IF n <= 0 THEN 0 ELSE SumAllBelow(n - 1) + SpecLimit(n - 1) + 1

\* sum of limit(k) + 1 over k = n-1, n-3, ... while k >= 0
RECURSIVE SumEveryOther(_)
SumEveryOther(n) == IF n <= 0 THEN 0 ELSE SumEveryOther(n - 2) + SpecLimit(n - 1) + 1

\* the lines i=count=0 .. n-1
Group(n) == [j \in 1..n |-> BarLoopLine(j - 1, j - 1)]

\* x-1, x-3, ... down to 0 or 1: ceil(x/2) values
EveryOtherBelow(x) == [j \in 1..((x + 1) \div 2) |-> x - (2 * j - 1)]

IsPrefix(s, t) == Len(s) <= Len(t) /\ \A k \in 1..Len(s) : s[k] = t[k]

\* ---- C1 ------------------------------------------------------------------
\* C1: for every non-negative x the run start(x) terminates: the recursion
\* reaches the base case of foo and the program then exits with status 0.
C1_Terminates ==
    (x0 >= 0) ~> (Done /\ status = <<0>> /\ trace # << >> /\ IsBaseLine(trace[Len(trace)]))

C1_Witness == Done /\ x0 = MaxX /\ status = <<0>> /\ IsBaseLine(trace[Len(trace)])

\* ---- C2 ------------------------------------------------------------------
\* C2 as stated: for x >= 1 the number of 'bar loop' lines of the whole run
\* is the sum over k = 0 .. x-1 of limit(k) + 1.
C2_Original == (Done /\ x0 >= 1) => Len(BarLines) = SumAllBelow(x0)

\* C2 amended: for x >= 1 the number of 'bar loop' lines of the whole run is
\* the sum of limit(k) + 1 over k = x-1, x-3, ... (k >= 0), the arguments bar
\* is actually invoked with.
C2_TotalBarLines == (Done /\ x0 >= 1) => Len(BarLines) = SumEveryOther(x0)

C2_Witness == Done /\ x0 >= 4 /\ Len(BarLines) = SumEveryOther(x0) /\ Len(BarLines) < SumAllBelow(x0)

\* ---- C3 ------------------------------------------------------------------
\* C3 as stated: start(6) emits the banner, then bar runs for k = 5,4,3,2,1,0
\* with groups of 3,2,5,4,3,2 'bar loop' lines (19), then the base line: 21
\* lines.
C3_Original ==
    (Done /\ x0 = 6) =>
        /\ BarArgs = <<5, 4, 3, 2, 1, 0>>
        /\ trace = <<BannerLine(6)>> \o Group(3) \o Group(2) \o Group(5)
                     \o Group(4) \o Group(3) \o Group(2) \o <<BaseLine>>
        /\ Len(BarLines) = 19
        /\ Len(trace) = 21

\* C3 amended: start(6) emits the banner, then bar runs for k = 5,3,1 in that
\* order with groups of limit(k)+1 = 4,6,4 'bar loop' lines (14), then
\* 'Reached base in foo': 16 lines.
C3_DefaultRun ==
    (Done /\ x0 = 6) =>
        /\ BarArgs = <<5, 3, 1>>
        /\ trace = <<BannerLine(6)>> \o Group(4) \o Group(6) \o Group(4) \o <<BaseLine>>
        /\ \A k \in 1..3 : SpecLimit(BarArgs[k]) + 1 = <<4, 6, 4>>[k]
        /\ Len(BarLines) = 14
        /\ Len(trace) = 16

C3_Witness == Done /\ x0 = 6 /\ Len(trace) = 16 /\ BarArgs = <<5, 3, 1>>

\* ---- C4 ------------------------------------------------------------------
\* C4: limit is total: 0 for every x < 0, (x mod 4) + 2, a value in 2..5, for
\* every x >= 0; limit(-1)=0, limit(0)=2, limit(1)=3, limit(2)=4, limit(3)=5,
\* limit(4)=2, limit(7)=5.
C4_Limit ==
    lastLimit # << >> =>
        LET x == lastLimit[1]
            n == lastLimit[2]
        IN  /\ x < 0 => n = 0
            /\ x >= 0 => (n = (x % 4) + 2 /\ n \in 2..5)
            /\ \A p \in {<<-1, 0>>, <<0, 2>>, <<1, 3>>, <<2, 4>>, <<3, 5>>, <<4, 2>>, <<7, 5>>} :
                   x = p[1] => n = p[2]

C4_Witness == lastLimit = <<-1, 0>>

\* ---- C5 ------------------------------------------------------------------
\* C5: the first line emitted is the banner 'Starting madness with <x>' and
\* the last line of a finished run is 'Reached base in foo'; no line precedes
\* the banner and no line follows the base-case line.
C5_FirstAndLast ==
    /\ trace # << >> => trace[1] = BannerLine(x0)
    /\ \A k \in 1..Len(trace) : IsBaseLine(trace[k]) => k = Len(trace)
    /\ Done => (trace # << >> /\ IsBaseLine(trace[Len(trace)]))

C5_Witness == Done /\ Len(trace) > 2 /\ trace[1] = BannerLine(x0) /\ IsBaseLine(trace[Len(trace)])

\* ---- C6 ------------------------------------------------------------------
\* C6: start(0) emits the banner and the base line only; start(1) the banner,
\* 'bar loop' lines i=count=0,1,2 (bar called with 0, base via foo(-1)), the
\* base line; start(2) the banner, 'bar loop' lines i=count=0,1,2,3 (bar
\* called with 1), the base line reached via foo(0).
C6_SmallTraces ==
    Done =>
        /\ x0 = 0 => (trace = <<BannerLine(0), BaseLine>> /\ BarArgs = << >>)
        /\ x0 = 1 => /\ trace = <<BannerLine(1), BarLoopLine(0, 0), BarLoopLine(1, 1),
                                  BarLoopLine(2, 2), BaseLine>>
                     /\ BarArgs = <<0>>
                     /\ FooArgs = <<1, -1>>
        /\ x0 = 2 => /\ trace = <<BannerLine(2), BarLoopLine(0, 0), BarLoopLine(1, 1),
                                  BarLoopLine(2, 2), BarLoopLine(3, 3), BaseLine>>
                     /\ BarArgs = <<1>>
                     /\ FooArgs = <<2, 0>>

C6_Witness == Done /\ x0 = 2 /\ Len(trace) = 6 /\ FooArgs = <<2, 0>>

\* ---- C7 ------------------------------------------------------------------
\* C7: in every reachable state every 'bar loop' line of the trace has equal
\* printed integers, i = count: the loop index, not bar's argument.
C7_IndexEqualsCount ==
    \A k \in 1..Len(trace) : IsBarLine(trace[k]) => trace[k].i = trace[k].count

C7_Witness ==
    /\ stack # << >>
    /\ Top.proc = "bar"
    /\ trace # << >>
    /\ IsBarLine(trace[Len(trace)])
    /\ trace[Len(trace)].count # Top.arg
    /\ trace[Len(trace)].count = 0

\* ---- C8 ------------------------------------------------------------------
\* C8: an invocation bar(c) emits exactly limit(c) + 1 'bar loop' lines of its
\* own, indices 0 .. limit(c) in increasing order, and only after the last of
\* them invokes foo(c - 1), c being the argument, not the loop variable.
C8_BarInvocation ==
    \A k \in 1..Len(calls) :
        IsBarCall(calls[k]) =>
            LET c == calls[k].arg
                n == calls[k].at
                L == SpecLimit(c)
            IN  IF k < Len(calls)
                THEN /\ calls[k + 1] = [proc |-> "foo", arg |-> c - 1, at |-> n + L + 1]
                     /\ \A j \in 0..L : trace[n + 1 + j] = BarLoopLine(j, j)
                ELSE /\ Len(trace) - n <= L + 1
                     /\ \A j \in 1..(Len(trace) - n) : trace[n + j] = BarLoopLine(j - 1, j - 1)

C8_Witness ==
    /\ x0 < 0
    /\ Len(calls) >= 2
    /\ calls[1] = [proc |-> "bar", arg |-> x0, at |-> 0]
    /\ calls[2] = [proc |-> "foo", arg |-> x0 - 1, at |-> 1]

\* ---- C9 ------------------------------------------------------------------
\* C9 as stated: when start(x) is invoked with a negative x the run does not
\* reach termination: bar is entered and the recursion goes on.
C9_Original == x0 < 0 => ~Done

\* C9 amended: when start(x) is invoked with a negative x the run terminates
\* at once: foo takes its base case, bar is never entered, and the trace is
\* the banner followed by 'Reached base in foo'.
C9_NegativeStart ==
    /\ [](x0 < 0 => (BarArgs = << >> /\ IsPrefix(trace, <<BannerLine(x0), BaseLine>>)))
    /\ (x0 < 0) ~> (Done /\ trace = <<BannerLine(x0), BaseLine>> /\ FooArgs = <<x0>>)

C9_Witness == x0 < 0 /\ Done /\ trace = <<BannerLine(x0), BaseLine>> /\ BarArgs = << >>

\* ---- C10 -----------------------------------------------------------------
\* C10: for x >= 0 foo's argument drops by exactly 2 per foo -> bar -> foo
\* cycle: bar is invoked exactly ceil(x/2) times, with x-1, x-3, ... in that
\* order, all non-negative, and foo is never called with less than -1.
C10_DropsByTwo ==
    x0 >= 0 =>
        /\ \A j \in 1..Len(FooArgs) : FooArgs[j] = x0 - 2 * (j - 1)
        /\ \A j \in 1..Len(FooArgs) : FooArgs[j] >= -1
        /\ IsPrefix(BarArgs, EveryOtherBelow(x0))
        /\ \A j \in 1..Len(BarArgs) : BarArgs[j] >= 0
        /\ Done => (Len(BarArgs) = (x0 + 1) \div 2 /\ BarArgs = EveryOtherBelow(x0))

C10_Witness == Done /\ x0 = 5 /\ BarArgs = <<4, 2, 0>> /\ FooArgs = <<5, 3, 1, -1>>

====
